---- MODULE Spec2Model ----
(***************************************************************************)
(* Neon Board: the board's game engine over a shared game document.        *)
(*                                                                         *)
(* The store holds one game document (doc) and an ordered queue of         *)
(* pending actions (queue).  The board keeps a rendered snapshot of the    *)
(* document (snap, the value React handed to the hooks at the last         *)
(* render), the two refs of useBoardActions (processing, lastProcessed)    *)
(* and the processPendingActions invocations that are suspended at an      *)
(* await (batches).  Players join (a read followed by a write) and submit  *)
(* actions.  thrown collects the faults an engine operation let escape to  *)
(* its caller, sessions the players whose device holds a saved session.    *)
(***************************************************************************)
EXTENDS Integers, Sequences, FiniteSets, TLC

VARIABLES doc, queue, nextId, snap, pendingNotify, processing, lastProcessed,
          batches, joinRead, written, thrown, sessions

vars == <<doc, queue, nextId, snap, pendingNotify, processing, lastProcessed,
          batches, joinRead, written, thrown, sessions>>

----------------------------------------------------------------------------
(* Bounds of the model *)

MaxActions == 2
MaxTurn == 1
MaxRound == 1
MaxInFlight == 2
ReadWindow == 2
MaxCalls == 4
MaxLog == 1

Players == {"p1", "p2"}
Submitters == {"p1"}
ActionTypes == {"add", "over", "boom", "nil", "unknownMove"}
InitTurnOrders == {<<>>, <<"p1", "p2">>}
TurnOrderArgs == {<<>>, <<"p1">>, <<"p1", "p2">>}
PhaseArgs == {"bet", "play"}
PhaseNames == PhaseArgs \cup {"lobby"}

----------------------------------------------------------------------------
(* Values *)

NONE == "none"
DEFAULT_PHASE == "default"

\* A game state is a JS object with optional keys "log" (an array) and
\* "mark"; keys is the set of keys present, log the array (<<>> if absent).
EmptyState == [keys |-> {}, log |-> <<>>]

\* Position of x in s (JS indexOf, 0-based), -1 when absent.
RECURSIVE IndexFrom(_, _, _)
IndexFrom(s, x, k) ==
  IF k > Len(s) THEN -1
  ELSE IF s[k] = x THEN k - 1
  ELSE IndexFrom(s, x, k + 1)

indexOf(s, x) == IndexFrom(s, x, 1)

includes(s, x) == \E k \in 1..Len(s) : s[k] = x

RemoveAt(s, k) == [j \in 1..(Len(s) - 1) |-> IF j < k THEN s[j] ELSE s[j + 1]]

RECURSIVE RemoveId(_, _)
RemoveId(q, id) ==
  IF q = <<>> THEN <<>>
  ELSE IF Head(q).id = id THEN Tail(q)
  ELSE <<Head(q)>> \o RemoveId(Tail(q), id)

Take(s, n) == IF Len(s) <= n THEN s ELSE SubSeq(s, 1, n)

----------------------------------------------------------------------------
(* The game configuration (GameConfig) the board is run with.  Reducers    *)
(* and hooks are author code; each is one of a few representative          *)
(* functions named by a tag.                                               *)

Config ==
  [ phaseKeys |-> <<"bet", "play">>,
    phases |-> [ bet  |-> [ start |-> TRUE, next |-> "play",
                            onBegin |-> NONE, onEnd |-> "throws",
                            moves |-> [ over |-> "overwrite" ] ],
                 play |-> [ start |-> FALSE, next |-> "bet",
                            onBegin |-> "mark", onEnd |-> NONE,
                            moves |-> [ nil |-> "null", add |-> "overwrite" ] ] ],
    moves |-> [ add |-> "append", boom |-> "throws" ],
    turns |-> [ onBegin |-> NONE, onEnd |-> "mark" ],
    setup |-> NONE ]

\* Outcome of calling the author function named by tag.
RunReducer(tag, state, payload, context) ==
  CASE tag = "append" ->
         [kind |-> "value",
          val |-> [keys |-> state.keys \cup {"log"}, log |-> Append(state.log, payload)]]
    [] tag = "overwrite" ->
         [kind |-> "value", val |-> [keys |-> {"log"}, log |-> <<payload>>]]
    [] tag = "mark" ->
         [kind |-> "value", val |-> [keys |-> state.keys \cup {"mark"}, log |-> state.log]]
    [] tag = "recordContext" ->
         [kind |-> "value",
          val |-> [keys |-> state.keys \cup {"log"}, log |-> Append(state.log, context)]]
    [] tag = "null" -> [kind |-> "null", val |-> state]
    [] OTHER -> [kind |-> "throw", val |-> state]

HasPhase(config, phase) == phase \in DOMAIN config.phases

\* getInitialPhaseFromConfig that takes the first declared phase whatever
\* the start flags.
getInitialPhaseFromConfigFirstDeclared(config) ==
  IF Len(config.phaseKeys) = 0 THEN "" ELSE config.phaseKeys[1]

getInitialPhaseFromConfig(config) ==
  LET keys == config.phaseKeys
      starts == {k \in 1..Len(keys) : config.phases[keys[k]].start = TRUE}
  IN IF Len(keys) = 0 THEN ""
     ELSE IF starts # {} THEN keys[CHOOSE k \in starts : \A j \in starts : k <= j]
     ELSE keys[1]

RECURSIVE PhaseWalk(_, _, _)
PhaseWalk(config, current, order) ==
  IF current = "" \/ includes(order, current) THEN order
  ELSE LET next == IF HasPhase(config, current) THEN config.phases[current].next ELSE NONE
       IN PhaseWalk(config,
                    IF next # NONE /\ next # "" /\ HasPhase(config, next) THEN next ELSE "",
                    Append(order, current))

\* getPhaseOrderFromConfig that lists the phases as declared.
getPhaseOrderFromConfigDeclared(config) == config.phaseKeys

\* getPhaseOrderFromConfig that follows next without looking the target up.
RECURSIVE PhaseWalkAnyTarget(_, _, _)
PhaseWalkAnyTarget(config, current, order) ==
  IF current = "" \/ includes(order, current) THEN order
  ELSE LET next == IF HasPhase(config, current) THEN config.phases[current].next ELSE NONE
       IN PhaseWalkAnyTarget(config, IF next # NONE THEN next ELSE "",
                             Append(order, current))

getPhaseOrderFromConfigAnyTarget(config) ==
  IF Len(config.phaseKeys) = 0 THEN <<>>
  ELSE PhaseWalkAnyTarget(config, getInitialPhaseFromConfig(config), <<>>)

getPhaseOrderFromConfig(config) ==
  IF Len(config.phaseKeys) = 0 THEN <<>>
  ELSE PhaseWalk(config, getInitialPhaseFromConfig(config), <<>>)

\* getAllowedMoveTypes that allows the moves of every phase.
getAllowedMoveTypesEveryPhase(config, phase) ==
  DOMAIN config.moves \cup UNION {DOMAIN config.phases[p].moves : p \in DOMAIN config.phases}

getAllowedMoveTypes(config, phase) ==
  DOMAIN config.moves \cup
    (IF HasPhase(config, phase) THEN DOMAIN config.phases[phase].moves ELSE {})

\* getReducer that looks in the phase's moves first.
getReducerPhaseFirst(config, phase, actionType) ==
  IF HasPhase(config, phase) /\ actionType \in DOMAIN config.phases[phase].moves
  THEN config.phases[phase].moves[actionType]
  ELSE IF actionType \in DOMAIN config.moves THEN config.moves[actionType]
       ELSE NONE

getReducer(config, phase, actionType) ==
  IF actionType \in DOMAIN config.moves THEN config.moves[actionType]
  ELSE IF HasPhase(config, phase) /\ actionType \in DOMAIN config.phases[phase].moves
       THEN config.phases[phase].moves[actionType]
       ELSE NONE

\* Context handed to reducers and hooks.
toActionContext(playerId, d) ==
  [ playerId |-> playerId, turn |-> d.turn, round |-> d.round, phase |-> d.phase,
    status |-> d.status, turnOrder |-> d.turnOrder,
    currentPlayerIndex |-> d.currentPlayerIndex,
    currentPlayerId |-> IF Len(d.turnOrder) > 0
                        THEN d.turnOrder[(d.currentPlayerIndex % Len(d.turnOrder)) + 1]
                        ELSE NONE,
    phases |-> d.phases ]

\* applyAction with a catch block that keeps the state instead of returning
\* null.
applyActionKeepsOnThrow(currentState, actionType, payload, context, gameConfig) ==
  LET allowed == getAllowedMoveTypes(gameConfig, context.phase)
      reducer == getReducer(gameConfig, context.phase, actionType)
  IN IF actionType \notin allowed THEN [ok |-> FALSE, state |-> currentState]
     ELSE IF reducer = NONE THEN [ok |-> FALSE, state |-> currentState]
     ELSE LET r == RunReducer(reducer, currentState, payload, context)
          IN IF r.kind = "value" THEN [ok |-> TRUE, state |-> r.val]
             ELSE IF r.kind = "throw" THEN [ok |-> TRUE, state |-> currentState]
             ELSE [ok |-> FALSE, state |-> currentState]

\* applyAction: the new state, or null (ok = FALSE).
applyAction(currentState, actionType, payload, context, gameConfig) ==
  LET allowed == getAllowedMoveTypes(gameConfig, context.phase)
      reducer == getReducer(gameConfig, context.phase, actionType)
  IN IF actionType \notin allowed THEN [ok |-> FALSE, state |-> currentState]
     ELSE IF reducer = NONE THEN [ok |-> FALSE, state |-> currentState]
     ELSE LET r == RunReducer(reducer, currentState, payload, context)
          IN IF r.kind = "value" THEN [ok |-> TRUE, state |-> r.val]
             ELSE [ok |-> FALSE, state |-> currentState]

----------------------------------------------------------------------------
(* The store *)

\* setDoc(ref, updates, {merge: true}) on the map field state: the keys of
\* the written map are set, the stored map's other keys stay; an empty map
\* replaces the stored map.
MergeState(old, new) ==
  IF new.keys = {} THEN EmptyState
  ELSE [keys |-> old.keys \cup new.keys,
        log |-> IF "log" \in new.keys THEN new.log ELSE old.log]

mergeGameDoc(d, updates) ==
  [f \in DOMAIN d |->
     IF f \in DOMAIN updates
     THEN IF f = "state" THEN MergeState(d.state, updates.state) ELSE updates[f]
     ELSE d[f]]

\* The game document createGame leaves in the store.
createGameInFirestore(options) ==
  LET phases == options.phases
      initialPhase == IF options.initialPhase # NONE THEN options.initialPhase
                      ELSE IF Len(phases) > 0 THEN phases[1] ELSE DEFAULT_PHASE
  IN [ state |-> options.initialState, turn |-> 0, round |-> 0,
       phase |-> initialPhase, turnOrder |-> options.turnOrder,
       currentPlayerIndex |-> 0, phases |-> phases, playerIds |-> <<>>,
       status |-> "waiting" ]

\* The context createGame hands to config.setup.
SetupContext(initialPhase, turnOrder) ==
  [ phase |-> initialPhase, turn |-> 0, round |-> 0, status |-> "waiting",
    turnOrder |-> turnOrder, currentPlayerIndex |-> 0 ]

\* Outcome of calling the author's setup named by tag.
RunSetup(tag, setupContext) ==
  IF tag = "recordContext"
  THEN [kind |-> "value", val |-> [keys |-> {"log"}, log |-> <<setupContext>>]]
  ELSE [kind |-> "throw", val |-> EmptyState]

\* createGame's options: gameConfig is <<>> when absent, <<config>> when
\* given; an absent initialState is the empty object, an absent phases the
\* empty list, an absent initialPhase NONE.
CreateGameOptions(config, turnOrder) ==
  [ gameConfig |-> <<config>>, initialState |-> EmptyState, initialPhase |-> NONE,
    phases |-> <<>>, turnOrder |-> turnOrder ]

\* Does createGame(db, boardId, options) throw before it writes?  setup is
\* called outside any try block.
createGameThrows(options) ==
  /\ Len(options.gameConfig) > 0
  /\ options.gameConfig[1].setup # NONE
  /\ RunSetup(options.gameConfig[1].setup,
              SetupContext(getInitialPhaseFromConfig(options.gameConfig[1]),
                           options.turnOrder)).kind = "throw"

\* createGame that lets options.initialPhase, options.phases and
\* options.initialState take precedence over the configuration.
createGameOptionsFirst(options) ==
  LET config == options.gameConfig[1]
      derived == Len(options.gameConfig) > 0
      phases == IF options.phases # <<>> \/ ~derived THEN options.phases
                ELSE getPhaseOrderFromConfig(config)
      initialPhase ==
        IF options.initialPhase # NONE THEN options.initialPhase
        ELSE IF derived THEN getInitialPhaseFromConfig(config)
        ELSE IF Len(phases) > 0 THEN phases[1] ELSE NONE
      initialState ==
        IF derived /\ config.setup # NONE /\ options.initialState = EmptyState
        THEN RunSetup(config.setup, SetupContext(initialPhase, options.turnOrder)).val
        ELSE options.initialState
  IN createGameInFirestore(
       [ initialState |-> initialState, initialPhase |-> initialPhase,
         phases |-> phases, turnOrder |-> options.turnOrder ])

\* The document createGame(db, boardId, options) stores when it does not throw.
createGame(options) ==
  IF Len(options.gameConfig) > 0
  THEN LET config == options.gameConfig[1]
           phases == getPhaseOrderFromConfig(config)
           initialPhase == getInitialPhaseFromConfig(config)
           initialState ==
             IF config.setup # NONE
             THEN RunSetup(config.setup,
                           SetupContext(initialPhase, options.turnOrder)).val
             ELSE options.initialState
       IN createGameInFirestore(
            [ initialState |-> initialState, initialPhase |-> initialPhase,
              phases |-> phases, turnOrder |-> options.turnOrder ])
  ELSE LET phases == options.phases
           initialPhase ==
             IF options.initialPhase # NONE THEN options.initialPhase
             ELSE IF Len(phases) > 0 THEN phases[1] ELSE NONE
       IN createGameInFirestore(
            [ initialState |-> options.initialState, initialPhase |-> initialPhase,
              phases |-> phases, turnOrder |-> options.turnOrder ])

\* The snapshot subscribeToGame hands to the board: state and context.
GameSnapshot(d) ==
  [ state |-> d.state, turn |-> d.turn, round |-> d.round, phase |-> d.phase,
    status |-> d.status, turnOrder |-> d.turnOrder,
    currentPlayerIndex |-> d.currentPlayerIndex, phases |-> d.phases ]

----------------------------------------------------------------------------
(* Turn and phase advance *)

\* getNextTurnUpdates with the round advanced on every turn.
getNextTurnUpdatesRoundEveryTurn(d) ==
  LET order == d.turnOrder IN
  IF Len(order) = 0 THEN [turn |-> d.turn + 1]
  ELSE [turn |-> d.turn + 1,
        currentPlayerIndex |-> (d.currentPlayerIndex + 1) % Len(order),
        round |-> d.round + 1]

\* getNextTurnUpdates with the round advanced when the turn order is empty.
getNextTurnUpdatesEmptyOrderRound(d) ==
  LET order == d.turnOrder IN
  IF Len(order) = 0 THEN [turn |-> d.turn + 1, round |-> d.round + 1]
  ELSE LET nextIndex == (d.currentPlayerIndex + 1) % Len(order)
       IN IF nextIndex = 0
          THEN [turn |-> d.turn + 1, currentPlayerIndex |-> nextIndex, round |-> d.round + 1]
          ELSE [turn |-> d.turn + 1, currentPlayerIndex |-> nextIndex]

getNextTurnUpdates(d) ==
  LET order == d.turnOrder IN
  IF Len(order) = 0 THEN [turn |-> d.turn + 1]
  ELSE LET nextIndex == (d.currentPlayerIndex + 1) % Len(order)
       IN IF nextIndex = 0
          THEN [turn |-> d.turn + 1, currentPlayerIndex |-> nextIndex, round |-> d.round + 1]
          ELSE [turn |-> d.turn + 1, currentPlayerIndex |-> nextIndex]

\* getNextPhaseUpdates with the round never advanced.
getNextPhaseUpdatesNoRound(d, nextPhase) ==
  IF nextPhase # NONE /\ nextPhase # "" THEN [phase |-> nextPhase]
  ELSE IF Len(d.phases) = 0 THEN [none |-> TRUE]
  ELSE LET i == indexOf(d.phases, d.phase)
           nextIndex == IF i < 0 THEN 0 ELSE (i + 1) % Len(d.phases)
       IN [phase |-> d.phases[nextIndex + 1]]

\* getNextPhaseUpdates with the round advanced when the target is the first
\* phase of the sequence.
getNextPhaseUpdatesWrapOnTarget(d, nextPhase) ==
  IF nextPhase # NONE /\ nextPhase # ""
  THEN IF Len(d.phases) > 0 /\ d.phases[1] = nextPhase
       THEN [phase |-> nextPhase, round |-> d.round + 1]
       ELSE [phase |-> nextPhase]
  ELSE IF Len(d.phases) = 0 THEN [none |-> TRUE]
  ELSE LET i == indexOf(d.phases, d.phase)
           nextIndex == IF i < 0 THEN 0 ELSE (i + 1) % Len(d.phases)
       IN IF nextIndex = 0
          THEN [phase |-> d.phases[nextIndex + 1], round |-> d.round + 1]
          ELSE [phase |-> d.phases[nextIndex + 1]]

\* getNextPhaseUpdates that stays in the current phase when no sequence is
\* stored.
getNextPhaseUpdatesStayWithoutPhases(d, nextPhase) ==
  IF nextPhase # NONE /\ nextPhase # "" THEN [phase |-> nextPhase]
  ELSE IF Len(d.phases) = 0 THEN [phase |-> d.phase]
  ELSE LET i == indexOf(d.phases, d.phase)
           nextIndex == IF i < 0 THEN 0 ELSE (i + 1) % Len(d.phases)
       IN IF nextIndex = 0
          THEN [phase |-> d.phases[nextIndex + 1], round |-> d.round + 1]
          ELSE [phase |-> d.phases[nextIndex + 1]]

\* nextPhase = NONE stands for an omitted argument; the result [none |-> TRUE]
\* for null.
getNextPhaseUpdates(d, nextPhase) ==
  IF nextPhase # NONE /\ nextPhase # "" THEN [phase |-> nextPhase]
  ELSE IF Len(d.phases) = 0 THEN [none |-> TRUE]
  ELSE LET i == indexOf(d.phases, d.phase)
           nextIndex == IF i < 0 THEN 0 ELSE (i + 1) % Len(d.phases)
       IN IF nextIndex = 0
          THEN [phase |-> d.phases[nextIndex + 1], round |-> d.round + 1]
          ELSE [phase |-> d.phases[nextIndex + 1]]

\* A hook whose throw loses the state.
RunHookDropsStateOnThrow(tag, s, context) ==
  IF tag = NONE THEN s
  ELSE LET r == RunReducer(tag, s, 0, context)
       IN IF r.kind = "throw" THEN EmptyState ELSE r.val

\* One hook under try/catch: the hook's value, or the state it was given
\* when it throws or is absent.
RunHook(tag, s, context) ==
  IF tag = NONE THEN s
  ELSE LET r == RunReducer(tag, s, 0, context)
       IN IF r.kind = "throw" THEN s ELSE r.val

\* runPhaseTransitionHooks with onBegin given the context of the new round
\* when the new phase is the first of the order.
runPhaseTransitionHooksAdvancedContext(config, currentPhaseName, nextPhaseName, state, context) ==
  LET s1 == IF HasPhase(config, currentPhaseName)
            THEN RunHook(config.phases[currentPhaseName].onEnd, state, context)
            ELSE state
      nextContext == [context EXCEPT
                        !.phase = nextPhaseName,
                        !.round = IF Len(context.phases) > 0 /\ context.phases[1] = nextPhaseName
                                  THEN context.round + 1 ELSE context.round]
  IN IF HasPhase(config, nextPhaseName)
     THEN RunHook(config.phases[nextPhaseName].onBegin, s1, nextContext)
     ELSE s1

runPhaseTransitionHooks(config, currentPhaseName, nextPhaseName, state, context) ==
  LET s1 == IF HasPhase(config, currentPhaseName)
            THEN RunHook(config.phases[currentPhaseName].onEnd, state, context)
            ELSE state
      nextContext == [context EXCEPT !.phase = nextPhaseName]
  IN IF HasPhase(config, nextPhaseName)
     THEN RunHook(config.phases[nextPhaseName].onBegin, s1, nextContext)
     ELSE s1

\* runTurnHooks with onBegin run before onEnd.
runTurnHooksBeginFirst(config, state, currentContext, nextContext) ==
  RunHook(config.turns.onEnd,
          RunHook(config.turns.onBegin, state, nextContext),
          currentContext)

runTurnHooks(config, state, currentContext, nextContext) ==
  RunHook(config.turns.onBegin,
          RunHook(config.turns.onEnd, state, currentContext),
          nextContext)

----------------------------------------------------------------------------
(* processPendingActions: the loop over the batch and its one write.  An   *)
(* invocation is suspended at each await: of a deletePendingAction, then   *)
(* of mergeGameDoc.                                                        *)

\* The loop with every reducer given the snapshot's state instead of the
\* running state.
RECURSIVE NextAppliedFromSnapshot(_, _, _)
NextAppliedFromSnapshot(b, i, state) ==
  IF i > Len(b.actions) THEN [found |-> FALSE, i |-> i, state |-> state]
  ELSE LET a == b.actions[i]
           context == toActionContext(a.playerId, b.currentDoc)
           newState == applyAction(b.currentDoc.state, a.type, a.payload, context, Config)
       IN IF newState.ok THEN [found |-> TRUE, i |-> i, state |-> newState.state]
          ELSE NextAppliedFromSnapshot(b, i + 1, state)

\* The loop leaving the batch at the first action that does not apply.
NextAppliedStopsAtRejection(b, i, state) ==
  IF i > Len(b.actions) THEN [found |-> FALSE, i |-> i, state |-> state]
  ELSE LET a == b.actions[i]
           context == toActionContext(a.playerId, [b.currentDoc EXCEPT !.state = state])
           newState == applyAction(state, a.type, a.payload, context, Config)
       IN IF newState.ok THEN [found |-> TRUE, i |-> i, state |-> newState.state]
          ELSE [found |-> FALSE, i |-> Len(b.actions) + 1, state |-> state]

\* The loop body from position i on, up to the first action that applies:
\* the position and the new state, or found = FALSE at the end of the batch.
RECURSIVE NextApplied(_, _, _)
NextApplied(b, i, state) ==
  IF i > Len(b.actions) THEN [found |-> FALSE, i |-> i, state |-> state]
  ELSE LET a == b.actions[i]
           context == toActionContext(a.playerId, [b.currentDoc EXCEPT !.state = state])
           newState == applyAction(state, a.type, a.payload, context, Config)
       IN IF newState.ok THEN [found |-> TRUE, i |-> i, state |-> newState.state]
          ELSE NextApplied(b, i + 1, state)

\* The write with the turn advanced.
BatchUpdatesAdvancingTurn(b, state) ==
  [ state |-> state, turn |-> b.currentDoc.turn + 1, round |-> b.currentDoc.round,
    phase |-> b.currentDoc.phase, turnOrder |-> b.currentDoc.turnOrder,
    currentPlayerIndex |-> b.currentDoc.currentPlayerIndex,
    phases |-> b.currentDoc.phases ]

\* The fields of the one write of an invocation.
BatchUpdates(b, state) ==
  [ state |-> state, turn |-> b.currentDoc.turn, round |-> b.currentDoc.round,
    phase |-> b.currentDoc.phase, turnOrder |-> b.currentDoc.turnOrder,
    currentPlayerIndex |-> b.currentDoc.currentPlayerIndex,
    phases |-> b.currentDoc.phases ]

\* Run invocation b (slot k of bs) from its position to its next await.  The
\* store operation awaited there either takes effect or is refused by the
\* store, in which case the await throws.
processPendingActions(b, bs, k, notified) ==
  LET r == NextApplied(b, b.i + 1, b.state) IN
  IF r.found
  THEN LET id == b.actions[r.i].id
           nb == [b EXCEPT !.i = r.i, !.state = r.state]
       IN \/ /\ queue' = RemoveId(queue, id)
             /\ batches' = [bs EXCEPT ![k] = [nb EXCEPT !.pc = "deleting",
                                                        !.consumed = Append(@, id)]]
             /\ pendingNotify' = TRUE
             /\ UNCHANGED <<doc, written>>
          \/ /\ batches' = [bs EXCEPT ![k] = [nb EXCEPT !.pc = "deleteFailed"]]
             /\ pendingNotify' = notified
             /\ UNCHANGED <<queue, doc, written>>
  ELSE \/ /\ doc' = mergeGameDoc(doc, BatchUpdates(b, r.state))
          /\ written' = written \cup {b.consumed[j] : j \in 1..Len(b.consumed)}
          /\ batches' = [bs EXCEPT ![k] = [b EXCEPT !.i = r.i - 1, !.state = r.state,
                                                    !.writes = @ + 1, !.pc = "writing"]]
          /\ pendingNotify' = notified
          /\ UNCHANGED queue
       \/ /\ batches' = [bs EXCEPT ![k] = [b EXCEPT !.i = r.i - 1, !.state = r.state,
                                                    !.writes = @ + 1, !.pc = "writeFailed"]]
          /\ pendingNotify' = notified
          /\ UNCHANGED <<queue, doc, written>>

ActionKey(actions) == [j \in 1..Len(actions) |-> actions[j].id]

\* subscribeToPendingActions: the oldest entries of the queue.
PendingActions == Take(queue, ReadWindow)

----------------------------------------------------------------------------
(* The board *)

\* subscribeToGame's listener: the board renders the stored document; the
\* effect of useBoardActions subscribes again and is notified of the queue.
DeliverSnapshot ==
  /\ snap # <<GameSnapshot(doc)>>
  /\ snap' = <<GameSnapshot(doc)>>
  /\ pendingNotify' = TRUE
  /\ UNCHANGED <<doc, queue, nextId, processing, lastProcessed, batches, joinRead, written, thrown, sessions>>

\* The listener without its processing guard.
MayProcessUnguarded(actions) ==
  /\ Len(actions) > 0
  /\ ActionKey(actions) # lastProcessed

\* The listener without its test for an empty list.
MayProcessEmptyList(actions) ==
  /\ ~processing
  /\ ActionKey(actions) # lastProcessed

\* May the listener of useBoardActions start a batch?
MayProcess(actions) ==
  /\ Len(actions) > 0
  /\ ~processing
  /\ ActionKey(actions) # lastProcessed

\* The listener of useBoardActions on the pending actions.
BoardActions ==
  /\ pendingNotify
  /\ snap # <<>>
  /\ LET actions == PendingActions IN
     IF MayProcess(actions) /\ Len(batches) < MaxInFlight
     THEN /\ processing' = TRUE
          /\ processPendingActions(
               [ currentDoc |-> snap[1], actions |-> actions, i |-> 0,
                 state |-> snap[1].state, consumed |-> <<>>, writes |-> 0,
                 pc |-> "start" ],
               Append(batches, <<>>), Len(batches) + 1, FALSE)
          /\ UNCHANGED <<nextId, snap, lastProcessed, joinRead, thrown, sessions>>
     ELSE /\ pendingNotify' = FALSE
          /\ UNCHANGED <<doc, queue, nextId, snap, processing, lastProcessed,
                         batches, joinRead, written, thrown, sessions>>

\* A deletePendingAction resolves: the loop goes on.
DeleteDone ==
  \E k \in 1..Len(batches) :
    /\ batches[k].pc = "deleting"
    /\ processPendingActions(batches[k], batches, k, pendingNotify)
    /\ UNCHANGED <<nextId, snap, processing, lastProcessed, joinRead, thrown, sessions>>

\* mergeGameDoc resolves: processPendingActions returns to the listener.
BatchDone ==
  \E k \in 1..Len(batches) :
    /\ batches[k].pc = "writing"
    /\ lastProcessed' = ActionKey(batches[k].actions)
    /\ processing' = FALSE
    /\ batches' = RemoveAt(batches, k)
    /\ UNCHANGED <<doc, queue, nextId, snap, pendingNotify, joinRead, written, thrown, sessions>>

\* The awaited store operation throws: the listener's finally block runs.
BatchFailed ==
  \E k \in 1..Len(batches) :
    /\ batches[k].pc \in {"deleteFailed", "writeFailed"}
    /\ processing' = FALSE
    /\ batches' = RemoveAt(batches, k)
    /\ thrown' = thrown \cup {"store"}
    /\ UNCHANGED <<doc, queue, nextId, snap, pendingNotify, lastProcessed, joinRead, written,
                   sessions>>

\* The context endTurn builds for turns.onBegin (its nextContext).
endTurnNextContext(current) ==
  LET currentCtx == toActionContext("", current)
      nextIndex == IF Len(current.turnOrder) > 0
                   THEN (current.currentPlayerIndex + 1) % Len(current.turnOrder)
                   ELSE 0
  IN [currentCtx EXCEPT
        !.turn = current.turn + 1,
        !.currentPlayerIndex = nextIndex,
        !.currentPlayerId = IF Len(current.turnOrder) > 0
                            THEN current.turnOrder[nextIndex + 1]
                            ELSE NONE,
        !.round = IF nextIndex = 0 THEN current.round + 1 ELSE current.round]

\* endTurn writing back the phase and the turn order of its snapshot too.
endTurnWritesSnapshot(current, gameConfig) ==
  [phase |-> current.phase, turnOrder |-> current.turnOrder]
    @@ getNextTurnUpdates(current) @@ [state |-> current.state]

\* endTurn(db, gameId, current, gameConfig), current the rendered snapshot.
endTurn(current, gameConfig) ==
  LET updates == getNextTurnUpdates(current)
      currentCtx == toActionContext("", current)
      nextContext == endTurnNextContext(current)
      state == IF gameConfig.turns.onEnd # NONE \/ gameConfig.turns.onBegin # NONE
               THEN runTurnHooks(gameConfig, current.state, currentCtx, nextContext)
               ELSE current.state
  IN updates @@ [state |-> state]

\* The callback of useEndTurn, the board run with gameConfig.
EndTurnWith(gameConfig) ==
  /\ snap # <<>>
  /\ snap[1].turn < MaxTurn
  /\ doc' = mergeGameDoc(doc, endTurn(snap[1], gameConfig))
  /\ UNCHANGED <<queue, nextId, snap, pendingNotify, processing, lastProcessed,
                 batches, joinRead, written, thrown, sessions>>

EndTurn == EndTurnWith(Config)

\* endPhase(db, gameId, current, nextPhase, gameConfig): the fields written,
\* or [none |-> TRUE] when it returns without writing.
endPhase(current, nextPhase, gameConfig) ==
  LET updates == getNextPhaseUpdates(current, nextPhase) IN
  IF "none" \in DOMAIN updates THEN updates
  ELSE LET nextPhaseName == updates.phase
           state == IF nextPhaseName # ""
                    THEN runPhaseTransitionHooks(gameConfig, current.phase, nextPhaseName,
                                                 current.state, toActionContext("", current))
                    ELSE current.state
       IN updates @@ [state |-> state]

\* The callback of useEndPhase, the board run with gameConfig.
EndPhaseUsing(nextPhase, gameConfig) ==
  /\ snap # <<>>
  /\ snap[1].round < MaxRound
  /\ LET updates == endPhase(snap[1], nextPhase, gameConfig) IN
     /\ "none" \notin DOMAIN updates
     /\ doc' = mergeGameDoc(doc, updates)
  /\ UNCHANGED <<queue, nextId, snap, pendingNotify, processing, lastProcessed,
                 batches, joinRead, written, thrown, sessions>>

EndPhaseWith(nextPhase) == EndPhaseUsing(nextPhase, Config)

EndPhase == \E nextPhase \in PhaseArgs \cup {NONE, ""} : EndPhaseWith(nextPhase)

\* setPhase entering the phase as endPhase does, the round advanced.
setPhaseAdvancesRound(phase) ==
  /\ doc' = mergeGameDoc(doc, [phase |-> phase, round |-> doc.round + 1])
  /\ UNCHANGED <<queue, nextId, snap, pendingNotify, processing, lastProcessed,
                 batches, joinRead, written, thrown, sessions>>

\* setPhase(db, gameId, phase): the name is stored as given.
setPhase(phase) ==
  /\ doc' = mergeGameDoc(doc, [phase |-> phase])
  /\ UNCHANGED <<queue, nextId, snap, pendingNotify, processing, lastProcessed,
                 batches, joinRead, written, thrown, sessions>>

SetPhase == \E phase \in PhaseArgs : setPhase(phase)

\* The callback of useSetPhase called with any name, configured or not.
SetPhaseNamed == \E phase \in PhaseNames : setPhase(phase)

GameStatuses == {"waiting", "active", "ended"}

\* setStatus(db, gameId, status).
setStatus(status) ==
  /\ doc' = mergeGameDoc(doc, [status |-> status])
  /\ UNCHANGED <<queue, nextId, snap, pendingNotify, processing, lastProcessed,
                 batches, joinRead, written, thrown, sessions>>

\* The callback of useSetStatus.
SetStatus == \E status \in GameStatuses : setStatus(status)

\* setTurnOrder(db, gameId, turnOrder).
setTurnOrder(turnOrder) ==
  /\ doc' = mergeGameDoc(doc, [turnOrder |-> turnOrder, currentPlayerIndex |-> 0])
  /\ UNCHANGED <<queue, nextId, snap, pendingNotify, processing, lastProcessed,
                 batches, joinRead, written, thrown, sessions>>

SetTurnOrder == \E turnOrder \in TurnOrderArgs : setTurnOrder(turnOrder)

----------------------------------------------------------------------------
(* The players *)

\* joinGameInFirestore up to its write: the document it read.
JoinRead ==
  \E p \in Players :
    /\ joinRead[p] = <<>>
    /\ doc.status \in {"waiting", "active"}
    /\ ~includes(doc.playerIds, p)
    /\ joinRead' = [joinRead EXCEPT ![p] = <<[playerIds |-> doc.playerIds,
                                               turnOrder |-> doc.turnOrder]>>]
    /\ UNCHANGED <<doc, queue, nextId, snap, pendingNotify, processing, lastProcessed,
                   batches, written, thrown, sessions>>

\* The fields joinGameInFirestore writes for playerId, from the document read.
JoinUpdates(data, playerId) ==
  [ playerIds |-> Append(data.playerIds, playerId), status |-> "active" ]
  @@ (IF ~includes(data.turnOrder, playerId)
      THEN [turnOrder |-> Append(data.turnOrder, playerId)]
      ELSE [status |-> "active"])

JoinWrite ==
  \E p \in Players :
    /\ joinRead[p] # <<>>
    /\ doc' = mergeGameDoc(doc, JoinUpdates(joinRead[p][1], p))
    /\ joinRead' = [joinRead EXCEPT ![p] = <<>>]
    /\ sessions' = sessions \cup {p}
    /\ UNCHANGED <<queue, nextId, snap, pendingNotify, processing, lastProcessed,
                   batches, written, thrown>>

\* The join code of the game, and the codes players type.
GameJoinCode == "ABCD"
JoinCodes == {"ABCD", " abcd ", "WXYZ"}

\* joinCode.trim().toUpperCase()
NormalizeJoinCode(joinCode) == IF joinCode = " abcd " THEN "ABCD" ELSE joinCode

\* joinGame that looks for the player in the game before it looks at the
\* status.
joinGameResultMemberFirst(d, playerId, joinCode) ==
  IF NormalizeJoinCode(joinCode) # GameJoinCode THEN "Game not found"
  ELSE IF includes(d.playerIds, playerId) THEN "player"
  ELSE IF d.status \notin {"waiting", "active"} THEN "Game is not joinable"
  ELSE "joins"

\* How joinGame(db, joinCode, playerId) ends on document d: with one of its
\* two errors, with the role of a player who is already in the game, or
\* with the write of a join ("joins").
joinGameResult(d, playerId, joinCode) ==
  IF NormalizeJoinCode(joinCode) # GameJoinCode THEN "Game not found"
  ELSE IF d.status \notin {"waiting", "active"} THEN "Game is not joinable"
  ELSE IF includes(d.playerIds, playerId) THEN "player"
  ELSE "joins"

\* joinGame ending before any write: an error reaches the caller, or the
\* player is already in the game and the session is saved again.
JoinReturns ==
  \E p \in Players, joinCode \in JoinCodes :
    /\ joinRead[p] = <<>>
    /\ LET result == joinGameResult(doc, p, joinCode) IN
       /\ result # "joins"
       /\ IF result = "player"
          THEN sessions' = sessions \cup {p} /\ UNCHANGED thrown
          ELSE thrown' = thrown \cup {result} /\ UNCHANGED sessions
    /\ UNCHANGED <<doc, queue, nextId, snap, pendingNotify, processing, lastProcessed,
                   batches, joinRead, written>>

\* addPendingAction: a player submits an action.
SubmitAction ==
  \E p \in Submitters, type \in ActionTypes :
    /\ nextId < MaxActions
    /\ nextId' = nextId + 1
    /\ queue' = Append(queue, [ id |-> nextId + 1, type |-> type,
                                payload |-> nextId + 1, playerId |-> p ])
    /\ pendingNotify' = TRUE
    /\ UNCHANGED <<doc, snap, processing, lastProcessed, batches, joinRead, written, thrown, sessions>>

----------------------------------------------------------------------------

Init ==
  /\ doc \in {createGame(CreateGameOptions(Config, turnOrder)) : turnOrder \in InitTurnOrders}
  /\ queue = <<>>
  /\ nextId = 0
  /\ snap = <<>>
  /\ pendingNotify = FALSE
  /\ processing = FALSE
  /\ lastProcessed = <<>>
  /\ batches = <<>>
  /\ joinRead = [p \in Players |-> <<>>]
  /\ written = {}
  /\ thrown = {}
  /\ sessions = {}

Next ==
  \/ DeliverSnapshot
  \/ BoardActions
  \/ DeleteDone
  \/ BatchDone
  \/ BatchFailed
  \/ EndTurn
  \/ EndPhase
  \/ SetPhase
  \/ SetTurnOrder
  \/ JoinRead
  \/ JoinWrite
  \/ SubmitAction

Spec == Init /\ [][Next]_vars

\* The board applying actions while the phase is set.
NextBatch ==
  \/ DeliverSnapshot
  \/ BoardActions
  \/ DeleteDone
  \/ BatchDone
  \/ BatchFailed
  \/ SetPhase
  \/ SubmitAction

SpecBatch == Init /\ [][NextBatch]_vars

\* The board applying actions while it advances turns and phases.
NextBoard ==
  \/ DeliverSnapshot
  \/ BoardActions
  \/ DeleteDone
  \/ BatchDone
  \/ BatchFailed
  \/ EndTurn
  \/ EndPhase
  \/ SubmitAction

SpecBoard == Init /\ [][NextBoard]_vars

\* Players joining while the board sets the turn order and advances turns.
NextLobby ==
  \/ DeliverSnapshot
  \/ EndTurn
  \/ SetTurnOrder
  \/ JoinRead
  \/ JoinWrite

SpecLobby == Init /\ [][NextLobby]_vars

\* The board's turn and phase operations alone.
NextAdvance ==
  \/ DeliverSnapshot
  \/ EndTurn
  \/ EndPhase
  \/ SetPhase
  \/ SetTurnOrder

SpecAdvance == Init /\ [][NextAdvance]_vars

----------------------------------------------------------------------------
(* The advance functions over a range of documents.  snap holds the        *)
(* document the run started from.                                          *)

CycleTurnOrders == {<<>>, <<"p1">>, <<"p1", "p2">>, <<"p1", "p2", "p3">>}
StartTurns == {2, 5}
StartRounds == {0, 1}

\* Documents a game reaches by turns that ended: any player's turn, a turn
\* counter not below the index.
InitTurnCycle ==
  /\ \E order \in CycleTurnOrders, t \in StartTurns, r \in StartRounds :
       \E i \in 0..(IF Len(order) = 0 THEN 0 ELSE Len(order) - 1) :
         doc = [createGame(CreateGameOptions(Config, order)) EXCEPT
                  !.turn = t, !.round = r, !.currentPlayerIndex = i]
  /\ snap = <<GameSnapshot(doc)>>
  /\ queue = <<>>
  /\ nextId = 0
  /\ pendingNotify = FALSE
  /\ processing = FALSE
  /\ lastProcessed = <<>>
  /\ batches = <<>>
  /\ joinRead = [p \in Players |-> <<>>]
  /\ written = {}
  /\ thrown = {}
  /\ sessions = {}

\* getNextTurnUpdates on the stored document, merged into it (the custom
\* engine use the function is exported for).
NextTurnUpdates ==
  /\ doc.turn - snap[1].turn < MaxCalls
  /\ doc' = mergeGameDoc(doc, getNextTurnUpdates(doc))
  /\ UNCHANGED <<queue, nextId, snap, pendingNotify, processing, lastProcessed,
                 batches, joinRead, written, thrown, sessions>>

SpecTurnCycle == InitTurnCycle /\ [][NextTurnUpdates]_vars

\* Phase lists a game is created with: none, derived from a configuration,
\* or given as options.phases (any list of names).
PhaseSequences ==
  { <<>>, <<"bet">>, <<"bet", "play">>, <<"bet", "deal", "act", "resolve">>,
    <<"bet", "deal", "bet", "resolve">> }

\* createGame without a gameConfig: options.phases and options.turnOrder.
InitPhaseCycle ==
  /\ doc \in { createGameInFirestore(
                 [ initialState |-> EmptyState, initialPhase |-> NONE,
                   phases |-> phases, turnOrder |-> turnOrder ]) :
               phases \in PhaseSequences, turnOrder \in InitTurnOrders }
  /\ queue = <<>>
  /\ nextId = 0
  /\ snap = <<>>
  /\ pendingNotify = FALSE
  /\ processing = FALSE
  /\ lastProcessed = <<>>
  /\ batches = <<>>
  /\ joinRead = [p \in Players |-> <<>>]
  /\ written = {}
  /\ thrown = {}
  /\ sessions = {}

NextPhaseCycle ==
  \/ DeliverSnapshot
  \/ EndPhase

SpecPhaseCycle == InitPhaseCycle /\ [][NextPhaseCycle]_vars

----------------------------------------------------------------------------
(* The lifecycle hooks.  The board is run with a configuration whose turn  *)
(* hooks and phase hooks are each absent, record the context they are      *)
(* given in the state, or throw.                                           *)

HookTags == {NONE, "recordContext", "throws"}

WithHooks(onEnd, onBegin) ==
  [Config EXCEPT
     !.turns = [onBegin |-> onBegin, onEnd |-> onEnd],
     !.phases = [p \in DOMAIN Config.phases |->
                   [Config.phases[p] EXCEPT !.onBegin = onBegin, !.onEnd = onEnd]]]

GameConfigs == {WithHooks(onEnd, onBegin) : onEnd \in HookTags, onBegin \in HookTags}

EndTurnHooks ==
  \E gameConfig \in GameConfigs :
    /\ snap # <<>>
    /\ Len(snap[1].state.log) < MaxLog
    /\ EndTurnWith(gameConfig)

EndPhaseHooks ==
  \E gameConfig \in GameConfigs, nextPhase \in PhaseArgs \cup {NONE} :
    /\ snap # <<>>
    /\ Len(snap[1].state.log) < MaxLog
    /\ EndPhaseUsing(nextPhase, gameConfig)

NextHooks ==
  \/ DeliverSnapshot
  \/ EndTurnHooks
  \/ EndPhaseHooks

SpecHooks == Init /\ [][NextHooks]_vars

----------------------------------------------------------------------------
(* Properties of a batch (SpecBatch) *)

QueueIds == {queue[j].id : j \in 1..Len(queue)}

SeqSet(q) == {q[j] : j \in 1..Len(q)}

\* The state after the first n actions of batch b, each given the state the
\* one before it left, in the order of the queue.
RECURSIVE InOrder(_, _)
InOrder(b, n) ==
  IF n = 0 THEN b.currentDoc.state
  ELSE LET prev == InOrder(b, n - 1)
           a == b.actions[n]
           res == applyAction(prev, a.type, a.payload,
                              toActionContext(a.playerId, b.currentDoc), Config)
       IN IF res.ok THEN res.state ELSE prev

\* C1: the actions of a batch are applied in the order of the queue: at
\* every await of an invocation its running state is the result of giving
\* each attempted action the state its predecessor produced, so for two
\* valid actions A (older) and B (newer) the state written is
\* reducerB(reducerA(state)).
C1_AppliedInQueueOrder ==
  \A k \in 1..Len(batches) :
    LET b == batches[k] IN
    /\ b.state = InOrder(b, b.i)
    /\ \A j \in 1..(Len(b.actions) - 1) : b.actions[j].id < b.actions[j + 1].id

\* An overwrite (A) followed by an append (B) has been applied and written:
\* B's reducer was given A's output.
C1_Witness ==
  \E k \in 1..Len(batches) :
    LET b == batches[k] IN
    /\ b.pc = "writing"
    /\ Len(b.actions) = 2
    /\ b.actions[1].type = "over" /\ b.actions[2].type = "add"
    /\ b.consumed = <<b.actions[1].id, b.actions[2].id>>
    /\ b.state.log = <<b.actions[1].payload, b.actions[2].payload>>

\* Does the configuration accept an action of this type in this phase: the
\* type is allowed, a reducer resolves, and it returns a state.
Accepts(type, phase) ==
  /\ type \in DOMAIN Config.moves
        \cup (IF phase \in DOMAIN Config.phases
              THEN DOMAIN Config.phases[phase].moves ELSE {})
  /\ LET tag == IF type \in DOMAIN Config.moves THEN Config.moves[type]
                ELSE Config.phases[phase].moves[type]
     IN tag \in {"append", "overwrite", "mark"}

\* C2: an attempted action of a batch is consumed (its delete issued, the
\* running state replaced by its reducer's output) if and only if its type
\* is allowed in the snapshot's phase, a reducer resolves and returns a
\* non-null state without throwing; every other attempted action is still in
\* the queue and has left no trace in the running state.  (An accepted action
\* whose delete the store refuses ends the invocation and is not counted.)
C2_ConsumedIffAccepted ==
  \A k \in 1..Len(batches) :
    LET b == batches[k]
        attempted == IF b.pc = "deleteFailed" THEN 1..(b.i - 1) ELSE 1..b.i
    IN /\ \A j \in attempted :
            LET a == b.actions[j] IN
            /\ (a.id \in SeqSet(b.consumed)) <=> Accepts(a.type, b.currentDoc.phase)
            /\ a.id \in SeqSet(b.consumed) => a.id \notin QueueIds
            /\ a.id \notin SeqSet(b.consumed) =>
                 /\ a.id \in QueueIds
                 /\ a.payload \notin SeqSet(b.state.log)
       /\ b.consumed # <<>> /\ b.pc # "deleteFailed" =>
            /\ "log" \in b.state.keys
            /\ b.state.log[Len(b.state.log)] = b.consumed[Len(b.consumed)]

\* A batch in phase play has rejected an action only phase bet allows and
\* consumed a global one.
C2_Witness ==
  \E k \in 1..Len(batches) :
    LET b == batches[k] IN
    /\ b.pc = "writing"
    /\ b.currentDoc.phase = "play"
    /\ b.actions[1].type = "over" /\ b.actions[1].id \in QueueIds
    /\ Len(b.actions) = 2 /\ b.actions[2].type = "add"
    /\ b.consumed = <<b.actions[2].id>>

\* C3: every action that is no longer in the queue has its effect in a state
\* write that has been made: no consumed action is deleted before the write
\* containing its effect.
C3_DeletedOnlyAfterWrite ==
  \A id \in 1..nextId : id \notin QueueIds => id \in written

\* C4: an invocation of processPendingActions that ends has issued exactly
\* one write of the game document, no invocation issues more than one, and
\* the write is issued only when every action of the batch has been
\* attempted.
C4_ExactlyOneWrite ==
  [][ /\ \A k \in 1..Len(batches') :
           /\ batches'[k].writes <= 1
           /\ batches'[k].writes = 1 => batches'[k].i = Len(batches'[k].actions)
      /\ Len(batches') < Len(batches) =>
           \A k \in 1..Len(batches) : batches[k].writes = 1 ]_vars

\* C6: at most one invocation of processPendingActions is in flight.
C6_OneBatchInFlight ==
  /\ Len(batches) <= 1
  /\ processing <=> Len(batches) = 1

\* A notification has been delivered and dropped while a batch was awaiting
\* a delete, after the board rendered a snapshot that differs from the one
\* the batch was started with.
C6_Witness ==
  /\ Len(batches) = 1
  /\ batches[1].pc = "deleting"
  /\ ~pendingNotify
  /\ queue # <<>>
  /\ snap # <<batches[1].currentDoc>>

\* Does the step issue the write of invocation k?
WritesNow(k) ==
  /\ k <= Len(batches')
  /\ batches'[k].pc = "writing"
  /\ (k > Len(batches) \/ batches[k].pc # "writing")

\* C7: the write of processPendingActions carries turn, round, phase,
\* turnOrder, currentPlayerIndex and phases of the snapshot the invocation
\* was given; the reducers' output goes to the state field alone, and status
\* is not written.
C7_ContextCopiedThrough ==
  [][ \A k \in 1..Len(batches') :
        WritesNow(k) =>
          LET b == batches'[k] IN
          /\ doc'.turn = b.currentDoc.turn
          /\ doc'.round = b.currentDoc.round
          /\ doc'.phase = b.currentDoc.phase
          /\ doc'.turnOrder = b.currentDoc.turnOrder
          /\ doc'.currentPlayerIndex = b.currentDoc.currentPlayerIndex
          /\ doc'.phases = b.currentDoc.phases
          /\ doc'.status = doc.status
          /\ doc'.playerIds = doc.playerIds
          /\ doc'.state = MergeState(doc.state, b.state) ]_vars

\* A batch that consumed an action has written, and the board has since
\* rendered another phase than the one the batch was started in.
C7_Witness ==
  \E k \in 1..Len(batches) :
    LET b == batches[k] IN
    /\ b.pc = "writing"
    /\ b.consumed # <<>>
    /\ doc.phase = b.currentDoc.phase
    /\ snap # <<>>
    /\ snap[1].phase # b.currentDoc.phase

----------------------------------------------------------------------------
(* Properties of the board's interleaved operations *)

\* C5: every processPendingActions invocation the listener starts is given a
\* snapshot that contains every write made before (of the earlier batches,
\* endTurn and endPhase calls): the rendered snapshot is the stored document.
C5_BatchStartsFromFreshSnapshot ==
  [][ (~processing /\ processing') => snap = <<GameSnapshot(doc)>> ]_vars

\* C8: the stored turn and round counters never decrease.
C8_CountersNeverDecrease ==
  [][ doc'.turn >= doc.turn /\ doc'.round >= doc.round ]_vars

\* C9: currentPlayerIndex is below the length of a non-empty turnOrder.
C9_IndexWithinTurnOrder ==
  Len(doc.turnOrder) > 0 => doc.currentPlayerIndex < Len(doc.turnOrder)

TurnWrapStep ==
  doc'.currentPlayerIndex = 0 /\ doc.currentPlayerIndex # 0

PhaseWrapStep ==
  /\ Len(doc.phases) > 0
  /\ doc'.phase = doc.phases[1]
  /\ doc.phase # doc.phases[1]

TurnWraps(s) ==
  Len(s.turnOrder) > 0 /\ (s.currentPlayerIndex + 1) % Len(s.turnOrder) = 0

\* Does endPhase without a target, given snapshot s, wrap to the first phase?
PhaseWraps(s) ==
  /\ Len(s.phases) > 0
  /\ \/ ~includes(s.phases, s.phase)
     \/ s.phases[Len(s.phases)] = s.phase

----------------------------------------------------------------------------
(* Properties of the advance functions *)

\* C11: over a turn order of length n >= 1, k calls of getNextTurnUpdates
\* from index i leave currentPlayerIndex = (i + k) mod n, turn grown by k and
\* round grown by the number of wraps (i + k) div n: n calls from index 0
\* come back to index 0 with turn + n and round + 1, and round is unchanged
\* before the n-th call (order of 3, index 2, turn 5, round 1: one call gives
\* index 0, turn 6, round 2).
C11_TurnCycle ==
  LET s == snap[1]
      n == Len(s.turnOrder)
      k == doc.turn - s.turn
  IN n >= 1 =>
       /\ doc.currentPlayerIndex = (s.currentPlayerIndex + k) % n
       /\ doc.round = s.round + ((s.currentPlayerIndex + k) \div n)
       /\ s.currentPlayerIndex = 0 /\ k = n =>
            doc.currentPlayerIndex = 0 /\ doc.round = s.round + 1
       /\ s.currentPlayerIndex = 0 /\ k < n =>
            doc.currentPlayerIndex = k /\ doc.round = s.round

\* Three calls over an order of three, from index 0, have come back to
\* index 0 one round later.
C11_Witness ==
  /\ Len(snap[1].turnOrder) = 3
  /\ snap[1].currentPlayerIndex = 0
  /\ doc.turn = snap[1].turn + 3
  /\ doc.currentPlayerIndex = 0
  /\ doc.round = snap[1].round + 1

\* The document after k calls of getNextPhaseUpdates without a target, each
\* merged into the document.
RECURSIVE AdvancePhases(_, _)
AdvancePhases(d, k) ==
  IF k = 0 THEN d
  ELSE LET prev == AdvancePhases(d, k - 1)
           updates == getNextPhaseUpdates(prev, NONE)
       IN IF "none" \in DOMAIN updates THEN prev ELSE mergeGameDoc(prev, updates)

DistinctNames(phases) ==
  \A i, j \in 1..Len(phases) : phases[i] = phases[j] => i = j

\* C12 as stated: for every stored phase sequence of length m >= 1, m calls
\* without a target from the first phase come back to the first phase with
\* round grown by one.
C12_PhaseCycle ==
  LET m == Len(doc.phases) IN
  m >= 1 /\ doc.phase = doc.phases[1] =>
    /\ AdvancePhases(doc, m).phase = doc.phases[1]
    /\ AdvancePhases(doc, m).round = doc.round + 1

\* C12 amended: for every stored phase sequence of m >= 1 pairwise distinct
\* names, k < m calls without a target from the first phase lead to the
\* (k+1)-th phase with round unchanged, and m calls come back to the first
\* phase with round grown by one.
C12_DistinctPhaseCycle ==
  LET m == Len(doc.phases) IN
  m >= 1 /\ DistinctNames(doc.phases) /\ doc.phase = doc.phases[1] =>
    /\ \A k \in 0..(m - 1) :
         /\ AdvancePhases(doc, k).phase = doc.phases[k + 1]
         /\ AdvancePhases(doc, k).round = doc.round
    /\ AdvancePhases(doc, m).phase = doc.phases[1]
    /\ AdvancePhases(doc, m).round = doc.round + 1

\* endPhase without a target has walked bet, deal, act, resolve and is back
\* in bet, one round later.
C12_Witness ==
  /\ doc.phases = <<"bet", "deal", "act", "resolve">>
  /\ snap # <<>>
  /\ snap[1].phase = "resolve"
  /\ doc.phase = "bet"
  /\ doc.round = snap[1].round + 1

\* C13: endPhase without a target, from a phase that is not in the sequence,
\* takes the phase as index 0: it goes to sequence[(0 + 1) mod length] and
\* advances round only if that index is 0.
C13_NotFoundAsIndexZero ==
  [][ \A t \in {NONE, ""} :
        EndPhaseWith(t) /\ ~includes(snap[1].phases, snap[1].phase) =>
          LET phases == snap[1].phases
              nextIndex == 1 % Len(phases)
          IN /\ doc'.phase = phases[nextIndex + 1]
             /\ doc'.round = IF nextIndex = 0 THEN snap[1].round + 1 ELSE doc.round ]_vars

\* C14: endPhase with a non-empty target writes that target as the phase and
\* leaves round (and turn, turnOrder, currentPlayerIndex, phases) as stored,
\* for every target, the first phase of the sequence and names outside it
\* included; getNextPhaseUpdates yields the phase alone; an empty string is
\* handled as an omitted target.
C14_ExplicitTarget ==
  /\ [][ \A t \in PhaseArgs :
           EndPhaseWith(t) =>
             /\ doc'.phase = t
             /\ doc'.round = doc.round
             /\ doc'.turn = doc.turn
             /\ doc'.turnOrder = doc.turnOrder
             /\ doc'.currentPlayerIndex = doc.currentPlayerIndex
             /\ doc'.phases = doc.phases ]_vars
  /\ [](snap # <<>> =>
          /\ \A t \in PhaseArgs \cup {"lobby"} :
               getNextPhaseUpdates(snap[1], t) = [phase |-> t]
          /\ getNextPhaseUpdates(snap[1], "") = getNextPhaseUpdates(snap[1], NONE)
          /\ endPhase(snap[1], "", Config) = endPhase(snap[1], NONE, Config))

\* endPhase("bet") from the last phase of a sequence that starts with bet has
\* gone to bet with round unchanged.
C14_Witness ==
  /\ snap # <<>>
  /\ snap[1].phases = <<"bet", "play">>
  /\ snap[1].phase = "play"
  /\ doc.phase = "bet"
  /\ doc.round = snap[1].round

\* C16: with no phase sequence stored and no target (omitted or empty),
\* endPhase returns without running a hook and without a write.
C16_NoOpWithoutPhases ==
  snap # <<>> /\ Len(snap[1].phases) = 0 =>
    \A t \in {NONE, ""} :
      /\ getNextPhaseUpdates(snap[1], t) = [none |-> TRUE]
      /\ endPhase(snap[1], t, Config) = [none |-> TRUE]

\* The board has rendered a game without phases, after an endPhase("play")
\* moved it there.
C16_Witness ==
  /\ snap # <<>>
  /\ Len(snap[1].phases) = 0
  /\ snap[1].phase = "play"
  /\ doc.phase = "play"

\* C15: with an empty turn order getNextTurnUpdates yields the turn alone,
\* grown by one: endTurn leaves the stored currentPlayerIndex and round (and
\* turnOrder, phase, phases) as they are.
C15_EmptyOrderTurnOnly ==
  /\ [][ EndTurn /\ Len(snap[1].turnOrder) = 0 =>
           /\ doc'.turn = snap[1].turn + 1
           /\ doc'.currentPlayerIndex = doc.currentPlayerIndex
           /\ doc'.round = doc.round
           /\ doc'.turnOrder = doc.turnOrder
           /\ doc'.phase = doc.phase
           /\ doc'.phases = doc.phases ]_vars
  /\ [](snap # <<>> /\ Len(snap[1].turnOrder) = 0 =>
          getNextTurnUpdates(snap[1]) = [turn |-> snap[1].turn + 1])

\* endTurn has been called on a game with an empty turn order, in its second
\* round: the turn has advanced, index and round have stayed.
C15_Witness ==
  /\ snap # <<>>
  /\ Len(snap[1].turnOrder) = 0
  /\ snap[1].round = 1
  /\ doc.turn = snap[1].turn + 1
  /\ doc.turnOrder = <<>>
  /\ doc.currentPlayerIndex = 0
  /\ doc.round = 1

----------------------------------------------------------------------------
(* Properties of the lifecycle hooks (SpecHooks) *)

\* What a hook that does not throw makes of state s: s when the hook is
\* absent, its return value otherwise.
HookValue(tag, s, context) ==
  IF tag = NONE THEN s ELSE RunReducer(tag, s, 0, context).val

\* What a hook makes of state s when a throwing hook leaves s as it is.
HookValueOrKept(tag, s, context) ==
  IF tag = "throws" THEN s ELSE HookValue(tag, s, context)

QuietTags == HookTags \ {"throws"}

C18_IncomingContextIsPostAdvance ==
  [][ \A gameConfig \in GameConfigs :
        EndTurnWith(gameConfig) =>
          LET incoming == endTurnNextContext(snap[1]) IN
          /\ incoming.turn = doc'.turn
          /\ incoming.round = doc'.round
          /\ incoming.currentPlayerIndex = doc'.currentPlayerIndex
          /\ incoming.currentPlayerId =
               IF doc'.currentPlayerIndex < Len(doc'.turnOrder)
               THEN doc'.turnOrder[doc'.currentPlayerIndex + 1] ELSE NONE ]_vars

\* C19: endPhase runs the leaving phase's onEnd on the snapshot's state with
\* the pre-transition context, then the entering phase's onBegin on the
\* resulting state with that context changed in its phase field alone
\* (round, turn, turnOrder and currentPlayerIndex as before the transition,
\* on a wrap too), and writes the resulting state.
C19_PhaseHooksInOrder ==
  [][ \A onEnd \in QuietTags, onBegin \in QuietTags :
        \A nextPhase \in PhaseArgs \cup {NONE} :
          EndPhaseUsing(nextPhase, WithHooks(onEnd, onBegin)) =>
            LET current == snap[1]
                before == toActionContext("", current)
                entering == [before EXCEPT !.phase = doc'.phase]
                afterEnd == IF current.phase \in DOMAIN Config.phases
                            THEN HookValue(onEnd, current.state, before)
                            ELSE current.state
                afterBegin == IF doc'.phase \in DOMAIN Config.phases
                              THEN HookValue(onBegin, afterEnd, entering)
                              ELSE afterEnd
            IN /\ doc'.state = MergeState(doc.state, afterBegin)
               /\ onEnd = "recordContext" /\ onBegin = "recordContext" =>
                    doc'.state.log = current.state.log \o <<before, entering>> ]_vars

\* endPhase has wrapped from play to bet and both phase hooks have recorded
\* their context: the round advanced in the document, and both contexts
\* carry the round before the transition.
C19_Witness ==
  /\ snap # <<>>
  /\ snap[1].phase = "play"
  /\ doc.phase = "bet"
  /\ doc.round = snap[1].round + 1
  /\ Len(doc.state.log) = 2
  /\ doc.state.log[1].phase = "play"
  /\ doc.state.log[2].phase = "bet"
  /\ doc.state.log[1].round = snap[1].round
  /\ doc.state.log[2].round = snap[1].round

\* C20: a hook that throws during endTurn or endPhase leaves the state it
\* was given, the other hook of the transition runs on that state, and the
\* transition writes its counters: turn, currentPlayerIndex and round for
\* endTurn, phase and round for endPhase.
C20_ThrowingHookKeepsState ==
  [][ \A onEnd \in HookTags, onBegin \in HookTags :
        (onEnd = "throws" \/ onBegin = "throws") =>
          /\ EndTurnWith(WithHooks(onEnd, onBegin)) =>
               LET current == snap[1]
                   afterEnd == HookValueOrKept(onEnd, current.state,
                                               toActionContext("", current))
                   afterBegin == HookValueOrKept(onBegin, afterEnd,
                                                 endTurnNextContext(current))
                   n == Len(current.turnOrder)
                   nextIndex == IF n = 0 THEN 0 ELSE (current.currentPlayerIndex + 1) % n
               IN /\ doc'.state = MergeState(doc.state, afterBegin)
                  /\ doc'.turn = current.turn + 1
                  /\ n > 0 => doc'.currentPlayerIndex = nextIndex
                  /\ n > 0 /\ nextIndex = 0 => doc'.round = current.round + 1
          /\ \A nextPhase \in PhaseArgs \cup {NONE} :
               EndPhaseUsing(nextPhase, WithHooks(onEnd, onBegin)) =>
                 LET current == snap[1]
                     before == toActionContext("", current)
                     afterEnd == HookValueOrKept(onEnd, current.state, before)
                     afterBegin == HookValueOrKept(onBegin, afterEnd,
                                                   [before EXCEPT !.phase = doc'.phase])
                     updates == getNextPhaseUpdates(current, nextPhase)
                 IN /\ doc'.state = MergeState(doc.state, afterBegin)
                    /\ doc'.phase = updates.phase
                    /\ "round" \in DOMAIN updates => doc'.round = current.round + 1 ]_vars

\* endPhase has wrapped from play to bet with a throwing onEnd and a
\* recording onBegin: onBegin ran on the state onEnd was given, and phase and
\* round advanced.
C20_Witness ==
  /\ snap # <<>>
  /\ snap[1].phase = "play"
  /\ snap[1].state = EmptyState
  /\ doc.phase = "bet"
  /\ doc.round = snap[1].round + 1
  /\ Len(doc.state.log) = 1
  /\ doc.state.log[1].phase = "bet"

----------------------------------------------------------------------------
(* The board creates games from configurations of every shape               *)

\* A phase of a configuration without hooks and with one phase-local move.
PhaseOf(start, next) ==
  [ start |-> start, next |-> next, onBegin |-> NONE, onEnd |-> NONE,
    moves |-> [ pass |-> "mark" ] ]

\* The phases of the configurations: a chain, a chain declared out of order
\* without a start flag, several start flags, a next that names no phase, a
\* self-loop, no phase at all, a cycle that does not pass the initial phase,
\* and an empty next.
PhaseGraphs ==
  { [ phaseKeys |-> <<"bet", "deal", "act">>,
      phases |-> [ bet |-> PhaseOf(TRUE, "deal"), deal |-> PhaseOf(FALSE, "act"),
                   act |-> PhaseOf(FALSE, NONE) ] ],
    [ phaseKeys |-> <<"deal", "bet">>,
      phases |-> [ deal |-> PhaseOf(FALSE, "bet"), bet |-> PhaseOf(FALSE, NONE) ] ],
    [ phaseKeys |-> <<"bet", "deal", "act">>,
      phases |-> [ bet |-> PhaseOf(FALSE, "deal"), deal |-> PhaseOf(TRUE, "act"),
                   act |-> PhaseOf(TRUE, NONE) ] ],
    [ phaseKeys |-> <<"bet", "deal">>,
      phases |-> [ bet |-> PhaseOf(TRUE, "deal"), deal |-> PhaseOf(FALSE, "ghost") ] ],
    [ phaseKeys |-> <<"bet">>,
      phases |-> [ bet |-> PhaseOf(FALSE, "bet") ] ],
    [ phaseKeys |-> <<>>, phases |-> <<>> ],
    [ phaseKeys |-> <<"deal", "act", "score">>,
      phases |-> [ deal |-> PhaseOf(TRUE, "act"), act |-> PhaseOf(FALSE, "score"),
                   score |-> PhaseOf(FALSE, "act") ] ],
    [ phaseKeys |-> <<"act", "bet">>,
      phases |-> [ act |-> PhaseOf(FALSE, ""), bet |-> PhaseOf(TRUE, "act") ] ],
    [ phaseKeys |-> Config.phaseKeys, phases |-> Config.phases ] }

SetupTags == {NONE, "recordContext", "throws"}

CreateConfigs ==
  { [ phaseKeys |-> g.phaseKeys, phases |-> g.phases, moves |-> Config.moves,
      turns |-> Config.turns, setup |-> setup ] :
    g \in PhaseGraphs, setup \in SetupTags }

SeedState == [keys |-> {"mark"}, log |-> <<>>]

\* The options the board passes to createGame.
CreateOptions ==
  { [ gameConfig |-> gameConfig, initialState |-> own.initialState,
      initialPhase |-> own.initialPhase, phases |-> own.phases,
      turnOrder |-> turnOrder ] :
    gameConfig \in {<<>>} \cup {<<config>> : config \in CreateConfigs},
    own \in { [ initialState |-> EmptyState, initialPhase |-> NONE, phases |-> <<>> ],
              [ initialState |-> SeedState, initialPhase |-> "lobby",
                phases |-> <<"lobby", "play">> ] },
    turnOrder \in InitTurnOrders }

\* createGame(db, boardId, options): the board leaves its game for the new
\* one, unless setup throws, in which case nothing is stored and the fault
\* reaches the caller.
CreateGameWith(options) ==
  /\ batches = <<>>
  /\ ~processing
  /\ IF createGameThrows(options)
     THEN /\ thrown' = thrown \cup {"setup"}
          /\ UNCHANGED <<doc, queue, nextId, snap, pendingNotify, processing,
                         lastProcessed, batches, joinRead, written, sessions>>
     ELSE /\ doc' = createGame(options)
          /\ queue' = <<>>
          /\ snap' = <<>>
          /\ pendingNotify' = FALSE
          /\ lastProcessed' = <<>>
          /\ joinRead' = [p \in Players |-> <<>>]
          /\ written' = {}
          /\ UNCHANGED <<nextId, processing, batches, thrown, sessions>>

CreateGame == \E options \in CreateOptions : CreateGameWith(options)

NextCreate ==
  \/ CreateGame
  \/ DeliverSnapshot

SpecCreate == Init /\ [][NextCreate]_vars

----------------------------------------------------------------------------
(* Faults of author code *)

\* C21: a fault raised by an author-supplied function (setup, a reducer, a
\* turn hook, a phase hook) never escapes the engine operation that called
\* it: the only faults createGame, processPendingActions, endTurn and
\* endPhase let reach their caller are refusals of the store.
C21_OnlyStoreFaultsEscape == thrown \subseteq {"store"}

----------------------------------------------------------------------------
(* Phase names *)

\* The board applying actions while the phase is set to any name.
NextPhaseNames ==
  \/ DeliverSnapshot
  \/ BoardActions
  \/ DeleteDone
  \/ BatchDone
  \/ BatchFailed
  \/ SetPhaseNamed
  \/ SubmitAction

SpecPhaseNames == Init /\ [][NextPhaseNames]_vars

\* C22: in every reachable state of a game created from a configuration the
\* stored phase is a key of the configuration's phases, or the empty string
\* when the configuration declares no phase.
C22_PhaseIsConfigured ==
  \/ doc.phase \in DOMAIN Config.phases
  \/ Config.phaseKeys = <<>> /\ doc.phase = ""

----------------------------------------------------------------------------
(* What players may change *)

EngineContext(d) ==
  [ turn |-> d.turn, round |-> d.round, phase |-> d.phase, status |-> d.status,
    turnOrder |-> d.turnOrder, currentPlayerIndex |-> d.currentPlayerIndex,
    phases |-> d.phases ]

\* C23: no operation of a participant other than the board (joining,
\* submitting an action) changes an engine-context field of the stored
\* document: turn, round, phase, status, turnOrder, currentPlayerIndex and
\* phases stay as they were.
C23_PlayersLeaveContextAlone ==
  [][JoinRead \/ JoinWrite \/ SubmitAction
       => EngineContext(doc') = EngineContext(doc)]_vars

----------------------------------------------------------------------------
(* The phase chain of a configuration *)

\* The phase next names after p, "" when p has no next, an empty one, or is
\* no phase.
NextNamed(config, p) ==
  IF p \in DOMAIN config.phases /\ config.phases[p].next \notin {NONE, ""}
  THEN config.phases[p].next ELSE ""

\* The name reached from p by following next n times, "" past the end.
RECURSIVE After(_, _, _)
After(config, p, n) ==
  IF n = 0 \/ p = "" THEN p ELSE After(config, NextNamed(config, p), n - 1)

\* No next names a missing phase and no phase leads back to itself.
WellFormedChain(config) ==
  /\ Len(config.phaseKeys) > 0
  /\ \A p \in DOMAIN config.phases : NextNamed(config, p) \in DOMAIN config.phases \cup {""}
  /\ \A p \in DOMAIN config.phases, n \in 1..Len(config.phaseKeys) :
       After(config, p, n) # p

\* The options whose createGame derives the phases from a configuration and
\* stores a document.
ConfigOptions ==
  {options \in CreateOptions :
     Len(options.gameConfig) > 0 /\ ~createGameThrows(options)}

\* C24: for a configuration whose chain is well formed (no cycle, no next
\* naming a missing phase) the phase order createGame derives and stores
\* starts with the initial phase and lists every phase reachable from it by
\* following next, once each, in chain order.
C24_OrderIsTheChain ==
  [][ \A options \in ConfigOptions :
        LET config == options.gameConfig[1]
            initial == getInitialPhaseFromConfig(config)
            order == doc'.phases
        IN CreateGameWith(options) /\ WellFormedChain(config) =>
             /\ order = getPhaseOrderFromConfig(config)
             /\ Len(order) >= 1 /\ order[1] = initial
             /\ \A n \in 0..Len(config.phaseKeys) :
                  IF After(config, initial, n) # ""
                  THEN Len(order) >= n + 1 /\ order[n + 1] = After(config, initial, n)
                  ELSE Len(order) <= n
             /\ DistinctNames(order) ]_vars

\* A game created from the configuration with two start flags: the chain
\* from deal.
C24_Witness ==
  /\ doc.phases = <<"deal", "act">>
  /\ doc.phase = "deal"
  /\ doc.turn = 0

\* C25: for every configuration (cycles, self-loops and next links to
\* missing phases included) the derived order is computed without a fault
\* and is the longest next-chain from the initial phase that names no phase
\* twice and only keys of phases: it stops at the first missing next, the
\* first target that is no phase, or the first revisit.
C25_OrderStopsSafely ==
  [][ \A options \in ConfigOptions :
        LET config == options.gameConfig[1]
            initial == getInitialPhaseFromConfig(config)
            order == doc'.phases
            last == order[Len(order)]
        IN CreateGameWith(options) =>
             /\ order = getPhaseOrderFromConfig(config)
             /\ \A i \in 1..Len(order) : order[i] \in DOMAIN config.phases
             /\ DistinctNames(order)
             /\ IF Len(config.phaseKeys) = 0 THEN order = <<>>
                ELSE /\ Len(order) >= 1 /\ order[1] = initial
                     /\ \A i \in 1..(Len(order) - 1) :
                          order[i + 1] = config.phases[order[i]].next
                     /\ \/ config.phases[last].next \in {NONE, ""}
                        \/ config.phases[last].next \notin DOMAIN config.phases
                        \/ includes(order, config.phases[last].next) ]_vars

\* Games created from the configuration whose chain enters a cycle past the
\* initial phase have been rendered.
C25_Witness ==
  /\ doc.phases = <<"deal", "act", "score">>
  /\ snap = <<GameSnapshot(doc)>>

----------------------------------------------------------------------------
(* Moves and reducers *)

\* The types of the actions invocation b has consumed.
ConsumedTypes(b) ==
  {b.actions[j].type : j \in {j \in 1..Len(b.actions) : includes(b.consumed, b.actions[j].id)}}

\* The moves allowed in phase are the global ones and the phase's own.
AllowedAsDeclared(phase) ==
  LET allowed == getAllowedMoveTypes(Config, phase) IN
  /\ allowed = DOMAIN Config.moves
                 \cup (IF phase \in DOMAIN Config.phases
                       THEN DOMAIN Config.phases[phase].moves ELSE {})
  /\ {"add", "boom"} \subseteq allowed
  /\ "over" \in allowed <=> phase = "bet"
  /\ "nil" \in allowed <=> phase = "play"
  /\ "unknownMove" \notin allowed

\* C27: the allowed move types of a phase are the keys of config.moves
\* together with the keys of that phase's moves: a global move is allowed in
\* every phase, a phase name that is not configured included, and a move
\* declared in one phase only is allowed in no other phase.  A batch consumes
\* only actions of the types allowed in its phase.
C27_AllowedMoves ==
  /\ AllowedAsDeclared(doc.phase)
  /\ \A k \in 1..Len(batches) :
       /\ AllowedAsDeclared(batches[k].currentDoc.phase)
       /\ ConsumedTypes(batches[k])
            \subseteq getAllowedMoveTypes(Config, batches[k].currentDoc.phase)

\* In the unconfigured phase lobby a batch has left bet's move over in the
\* queue and consumed the global move add.
C27_Witness ==
  \E k \in 1..Len(batches) :
    /\ batches[k].currentDoc.phase = "lobby"
    /\ batches[k].actions[1].type = "over"
    /\ batches[k].consumed = <<2>>
    /\ ConsumedTypes(batches[k]) = {"add"}

\* C28: for an action type declared both in config.moves and in the moves of
\* the current phase (add, in phase play) the global reducer is resolved and
\* run; the phase's reducer of the same name is never invoked.  Every add
\* an invocation consumes appends its payload, in play as in any phase.
C28_GlobalReducerShadows ==
  \A k \in 1..Len(batches) :
    LET b == batches[k] IN
    /\ getReducer(Config, b.currentDoc.phase, "add") = Config.moves["add"]
    /\ b.pc # "deleteFailed" /\ ConsumedTypes(b) \subseteq {"add"}
         => b.state.log = b.currentDoc.state.log \o b.consumed

\* In phase play, where add is also a phase move that overwrites, a batch
\* has consumed two add actions and holds both payloads.
C28_Witness ==
  \E k \in 1..Len(batches) :
    /\ batches[k].currentDoc.phase = "play"
    /\ "add" \in DOMAIN Config.phases["play"].moves
    /\ batches[k].consumed = <<1, 2>>
    /\ ConsumedTypes(batches[k]) = {"add"}
    /\ batches[k].state.log = <<1, 2>>

----------------------------------------------------------------------------
(* The empty batch *)

\* processPendingActions called with the rendered snapshot and no action.
EmptyBatch ==
  [ currentDoc |-> snap[1], actions |-> <<>>, i |-> 0, state |-> snap[1].state,
    consumed |-> <<>>, writes |-> 0, pc |-> "start" ]

\* C29: processing an empty batch is a no-op.  The listener of
\* useBoardActions called with an empty queue starts no batch and leaves
\* the store as it is; processPendingActions on an empty list computes the
\* state and context of the document it was given, so that its write leaves
\* the stored document it was taken from unchanged.
C29_EmptyBatchIsNoOp ==
  /\ [](snap # <<>> =>
          LET r == NextApplied(EmptyBatch, 1, EmptyBatch.state)
              updates == BatchUpdates(EmptyBatch, r.state)
          IN /\ ~r.found
             /\ \A f \in DOMAIN updates : updates[f] = snap[1][f]
             /\ snap[1] = GameSnapshot(doc) => mergeGameDoc(doc, updates) = doc)
  /\ [][BoardActions /\ PendingActions = <<>>
          => /\ doc' = doc
             /\ queue' = queue
             /\ batches' = batches
             /\ processing' = processing
             /\ lastProcessed' = lastProcessed]_vars

\* A batch consumed and removed both actions; the listener has then been
\* called with the empty queue and has returned.
C29_Witness ==
  /\ queue = <<>>
  /\ batches = <<>>
  /\ written = {1, 2}
  /\ lastProcessed = <<1, 2>>
  /\ ~pendingNotify
  /\ doc.state.log # <<>>

----------------------------------------------------------------------------
(* Creating a game from a configuration *)

\* C30: createGame with a gameConfig stores the initial phase and the phase
\* order derived from the configuration, whatever options.initialPhase and
\* options.phases say, with turn 0, round 0, currentPlayerIndex 0 and status
\* "waiting"; a setup is run once with exactly that context and what it
\* returns is the stored state, options.initialState being used only when
\* there is no setup.
C30_CreateFromConfig ==
  [][ \A options \in ConfigOptions :
        LET config == options.gameConfig[1]
            initial == getInitialPhaseFromConfig(config)
        IN CreateGameWith(options) =>
             /\ doc'.phase = initial
             /\ doc'.phases = getPhaseOrderFromConfig(config)
             /\ doc'.turn = 0 /\ doc'.round = 0 /\ doc'.currentPlayerIndex = 0
             /\ doc'.status = "waiting"
             /\ doc'.turnOrder = options.turnOrder
             /\ IF config.setup = NONE THEN doc'.state = options.initialState
                ELSE doc'.state =
                       [ keys |-> {"log"},
                         log |-> << [ phase |-> initial, turn |-> 0, round |-> 0,
                                      status |-> "waiting",
                                      turnOrder |-> options.turnOrder,
                                      currentPlayerIndex |-> 0 ] >> ] ]_vars

\* A game of the three-phase chain whose setup recorded the context it was
\* given, with both players in the turn order.
C30_Witness ==
  /\ doc.phases = <<"bet", "deal", "act">>
  /\ doc.phase = "bet"
  /\ doc.status = "waiting"
  /\ doc.state.log = << [ phase |-> "bet", turn |-> 0, round |-> 0, status |-> "waiting",
                          turnOrder |-> <<"p1", "p2">>, currentPlayerIndex |-> 0 ] >>

----------------------------------------------------------------------------
(* Joining *)

\* C31: when join order is the turn order so far (the game was created
\* without one), a player who completes a join is appended to playerIds and
\* to turnOrder, behind everyone who joined before, also when two joins
\* overlap: every joined player is listed, once, in the order of completion.
C31_JoinOrderIsTurnOrder ==
  [][ \A p \in Players :
        /\ JoinWrite
        /\ joinRead[p] # <<>> /\ joinRead'[p] = <<>>
        /\ doc.turnOrder = doc.playerIds
        /\ joinRead[p][1].turnOrder = joinRead[p][1].playerIds
        => /\ doc'.playerIds = Append(doc.playerIds, p)
           /\ doc'.turnOrder = doc'.playerIds ]_vars

\* Players joining, with wrong codes too, while the board sets the status.
NextJoin ==
  \/ JoinRead
  \/ JoinWrite
  \/ JoinReturns
  \/ SetStatus

SpecJoin == Init /\ [][NextJoin]_vars

\* C32: joinGame raises "Game not found" when no game has the join code and
\* "Game is not joinable" when the game's status is neither "waiting" nor
\* "active", also for a player who is already in the game; a join that
\* raises leaves the game document and the saved sessions as they are, and
\* a join goes on to its write only when neither error applies.
C32_JoinErrors ==
  /\ [](\A p \in Players, joinCode \in JoinCodes :
          LET result == joinGameResult(doc, p, joinCode) IN
          /\ joinCode = "WXYZ" => result = "Game not found"
          /\ joinCode # "WXYZ" /\ doc.status = "ended" => result = "Game is not joinable"
          /\ joinCode # "WXYZ" /\ doc.status # "ended" =>
               result = IF includes(doc.playerIds, p) THEN "player" ELSE "joins")
  /\ [][ /\ thrown' # thrown => /\ doc' = doc
                                 /\ sessions' = sessions
                                 /\ joinRead' = joinRead
                                 /\ thrown' \ thrown \subseteq
                                      {joinGameResult(doc, p, joinCode) :
                                         p \in Players, joinCode \in JoinCodes}
         /\ \A p \in Players :
              joinRead[p] = <<>> /\ joinRead'[p] # <<>> =>
                joinGameResult(doc, p, GameJoinCode) = "joins" ]_vars

\* Both errors have been raised, the second for a game that has ended and
\* that p1 had joined.
C32_Witness ==
  /\ thrown = {"Game not found", "Game is not joinable"}
  /\ doc.status = "ended"
  /\ includes(doc.playerIds, "p1")
  /\ "p1" \in sessions

----------------------------------------------------------------------------
(* Counting turns *)

\* C33: every completed endTurn call adds one to the stored turn counter, so
\* that k calls add k, also when a call is issued before the board has
\* rendered the write of the call before it.
C33_EveryCallCounts == [][EndTurn => doc'.turn = doc.turn + 1]_vars

----------------------------------------------------------------------------
(* The stored state *)

\* C34: after processPendingActions or endTurn completes on the stored
\* state, the stored state is exactly the state the engine computed, replaced
\* as a whole: a key of the previously stored state that the computed state
\* does not have is gone.
C34_StateReplacedWholesale ==
  [][ /\ \A k \in 1..Len(batches') :
           WritesNow(k) /\ batches'[k].currentDoc.state = doc.state
             => doc'.state = batches'[k].state
      /\ EndTurn /\ snap[1].state = doc.state
           => doc'.state = endTurn(snap[1], Config).state ]_vars

----------------------------------------------------------------------------
(* Rejected actions *)

\* The board is at rest: it has rendered the stored document, handled every
\* notification, has no batch in flight, and the store has refused nothing.
BoardAtRest ==
  /\ snap = <<GameSnapshot(doc)>>
  /\ ~pendingNotify
  /\ batches = <<>>
  /\ ~processing
  /\ "store" \notin thrown

\* C35: an action that was rejected because the phase did not allow it is
\* consumed once the board is in a phase that allows it, without a further
\* action being enqueued: the board does not come to rest, in a phase it has
\* rendered, over a queue it has processed that holds an action this phase
\* accepts.
C35_RejectedIsRetried ==
  BoardAtRest /\ queue # <<>> /\ lastProcessed = ActionKey(PendingActions)
    => \A j \in 1..Len(PendingActions) : ~Accepts(PendingActions[j].type, doc.phase)

\* A queue whose oldest entries, as many as the board reads, are of a type
\* no phase declares, followed by one action of the global move add.
StarvedQueue ==
  [j \in 1..(ReadWindow + 1) |->
     [ id |-> j, type |-> IF j <= ReadWindow THEN "unknownMove" ELSE "add",
       payload |-> j, playerId |-> "p1" ]]

InitStarved ==
  /\ doc \in {createGame(CreateGameOptions(Config, turnOrder)) : turnOrder \in InitTurnOrders}
  /\ queue = StarvedQueue
  /\ nextId = ReadWindow + 1
  /\ snap = <<>>
  /\ pendingNotify = TRUE
  /\ processing = FALSE
  /\ lastProcessed = <<>>
  /\ batches = <<>>
  /\ joinRead = [p \in Players |-> <<>>]
  /\ written = {}
  /\ thrown = {}
  /\ sessions = {}

NextStarved ==
  \/ DeliverSnapshot
  \/ BoardActions
  \/ BatchDone
  \/ BatchFailed
  \/ SetPhase

SpecStarved == InitStarved /\ [][NextStarved]_vars

\* C36: an action whose type the current phase allows and whose reducer
\* succeeds is consumed even when as many permanently rejected actions as the
\* board reads at once were enqueued before it: the board does not come to
\* rest while the queue holds an action the rendered phase accepts.
C36_NoStarvationBehindRejected ==
  BoardAtRest => \A j \in 1..Len(queue) : ~Accepts(queue[j].type, doc.phase)

\* C37: a rejected action does not stop the batch: an invocation reaches
\* its write only after it has attempted every action, each action the
\* configuration accepts is consumed whatever was rejected before it, and an
\* action that follows a rejected one is given the running state as it was
\* before the rejected one.
C37_RejectionDoesNotStopBatch ==
  \A k \in 1..Len(batches) :
    LET b == batches[k]
        phase == b.currentDoc.phase
    IN b.pc \in {"writing", "writeFailed"} =>
         /\ b.i = Len(b.actions)
         /\ \A j \in 1..Len(b.actions) :
              Accepts(b.actions[j].type, phase) => b.actions[j].id \in SeqSet(b.consumed)
         /\ /\ Len(b.actions) = 2
            /\ ~Accepts(b.actions[1].type, phase)
            /\ b.actions[2].type = "add"
            => /\ b.consumed = <<b.actions[2].id>>
               /\ b.state.keys = b.currentDoc.state.keys \cup {"log"}
               /\ b.state.log = Append(b.currentDoc.state.log, b.actions[2].payload)

\* A batch whose first action's reducer threw has gone on to consume the
\* add action behind it and has written.
C37_Witness ==
  \E k \in 1..Len(batches) :
    LET b == batches[k] IN
    /\ b.pc = "writing"
    /\ Len(b.actions) = 2
    /\ b.actions[1].type = "boom" /\ b.actions[1].id \in QueueIds
    /\ b.actions[2].type = "add"
    /\ b.consumed = <<b.actions[2].id>>
    /\ b.state.log = <<b.actions[2].payload>>

----------------------------------------------------------------------------
(* The board's controls: the turn and phase operations with the status   *)
(* and the turn order set between them.                                   *)

NextControls ==
  \/ DeliverSnapshot
  \/ EndTurn
  \/ EndPhase
  \/ SetPhase
  \/ SetTurnOrder
  \/ SetStatus

SpecControls == Init /\ [][NextControls]_vars

\* The stored fields outside fields are the same before and after the step.
Keeps(fields) == \A f \in DOMAIN doc \ fields : doc'[f] = doc[f]

\* C38: endTurn changes only turn, currentPlayerIndex, round and state, and
\* endPhase only phase, round and state: every other stored field, phase,
\* turnOrder, status and phases for endTurn and turn, currentPlayerIndex,
\* turnOrder, status and phases for endPhase, is as it was in the store,
\* whatever the snapshot the board called them with.
C38_AdvanceFrame ==
  [][ /\ EndTurn => /\ Keeps({"turn", "currentPlayerIndex", "round", "state"})
                    /\ doc'.phase = doc.phase /\ doc'.turnOrder = doc.turnOrder
                    /\ doc'.status = doc.status /\ doc'.phases = doc.phases
      /\ EndPhase => /\ Keeps({"phase", "round", "state"})
                     /\ doc'.turn = doc.turn
                     /\ doc'.currentPlayerIndex = doc.currentPlayerIndex
                     /\ doc'.turnOrder = doc.turnOrder
                     /\ doc'.status = doc.status /\ doc'.phases = doc.phases ]_vars

\* endTurn and endPhase have written from a snapshot taken before the
\* phase, the turn order and the status were set to what the store holds.
C38_Witness ==
  /\ snap # <<>>
  /\ snap[1].turn = 0 /\ snap[1].round = 0
  /\ doc.turn = 1 /\ doc.round = 1
  /\ doc.status = "ended" /\ snap[1].status = "waiting"
  /\ doc.turnOrder = <<"p1">> /\ snap[1].turnOrder = <<"p1", "p2">>
  /\ doc.phase # snap[1].phase

\* C39: setTurnOrder(order) stores order as the turn order and 0 as the
\* current player index and leaves turn, round, phase, status, state and
\* every other field alone; setPhase changes the phase alone, the round and
\* the state (no hook is run) as they were; setStatus changes the status
\* alone.
C39_ControlsFrame ==
  [][ /\ \A order \in TurnOrderArgs :
           setTurnOrder(order) =>
             /\ doc'.turnOrder = order
             /\ doc'.currentPlayerIndex = 0
             /\ Keeps({"turnOrder", "currentPlayerIndex"})
      /\ \A phase \in PhaseArgs :
           setPhase(phase) =>
             /\ doc'.phase = phase
             /\ doc'.round = doc.round /\ doc'.state = doc.state
             /\ Keeps({"phase"})
      /\ \A status \in GameStatuses :
           setStatus(status) =>
             /\ doc'.status = status
             /\ Keeps({"status"}) ]_vars

\* After a turn that moved the index to the second player the turn order
\* has been set to one player and the index is back at 0 with the turn
\* counted, and the phase and the status have been set.
C39_Witness ==
  /\ doc.turn = 1 /\ doc.round = 0
  /\ doc.turnOrder = <<"p1">> /\ doc.currentPlayerIndex = 0
  /\ doc.status = "active"
  /\ doc.phase = "play"

====
